---------------------------- MODULE Spec2Model ----------------------------
(***************************************************************************)
(* Model of the organic SERP monitor (src/main.py): configuration reading, *)
(* link classification, row building, the two worksheets (Data and         *)
(* Keyword_Ideas) and the keyword loop of main().                          *)
(*                                                                         *)
(* Python values are tagged records: None, S(<<chars>>) for a str (a       *)
(* sequence of one-character symbols; fixed literals such as "Date" are    *)
(* one symbol), N(n) for an int.  A dict is a function whose DOMAIN is its *)
(* key set.  A worksheet is the sequence of its rows, a row the sequence   *)
(* of its cells.                                                           *)
(***************************************************************************)
EXTENDS Integers, Sequences, FiniteSets, TLC

VARIABLES
    cfg,          \* the Config worksheet: [kwcol, compcol], columns A and B
    data,         \* the Data worksheet
    ideas,        \* the Keyword_Ideas worksheet
    pc,           \* where main() is
    exitCode,     \* the process exit code, -1 while running or not started
    keywords,     \* main's keywords (read_config)
    competitors,  \* main's competitors (read_config)
    today_str,    \* main's today_str
    idx,          \* position of the for loop in keywords (1-based)
    result,       \* main's result for the current keyword
    attempted,    \* keywords the loop has started, in order (history)
    log,          \* the error lines the run has printed (stderr), in order
    runs,         \* number of runs started
    clock,        \* the UTC day
    lastAppend,   \* the last writer call: table, batch, how it went (history)
    written,      \* rows the store accepted per table, in order (history)
    arg,          \* input of the function under test (function harnesses)
    ret,          \* its result
    callers       \* the writer calls in progress when two runs overlap

vars == <<cfg, data, ideas, pc, exitCode, keywords, competitors, today_str,
          idx, result, attempted, log, runs, clock, lastAppend, written,
          arg, ret, callers>>

pipelineVars == <<cfg, data, ideas, pc, exitCode, keywords, competitors,
                  today_str, idx, result, attempted, log, runs, clock,
                  lastAppend, written>>

----------------------------------------------------------------------------
(* Python values *)

None == [none |-> TRUE]
S(chars) == [str |-> chars]
N(n) == [int |-> n]

IsNone(v) == "none" \in DOMAIN v
IsStr(v) == "str" \in DOMAIN v
IsInt(v) == "int" \in DOMAIN v

\* bool(v): None, "" and 0 are falsy
Truthy(v) ==
    CASE IsNone(v) -> FALSE
      [] IsStr(v) -> v.str # <<>>
      [] IsInt(v) -> v.int # 0

\* a or b
Or(a, b) == IF Truthy(a) THEN a ELSE b

\* d.get(k)
get(d, k) == IF k \in DOMAIN d THEN d[k] ELSE None

----------------------------------------------------------------------------
(* str methods, on sequences of characters *)

LowerChar(c) ==
    CASE c = "A" -> "a"
      [] c = "B" -> "b"
      [] OTHER -> c

\* str.lower
lower(s) == [i \in 1..Len(s) |-> LowerChar(s[i])]

IsSpace(c) == c = " "

RECURSIVE lstrip(_)
lstrip(s) ==
    IF s = <<>> THEN <<>>
    ELSE IF IsSpace(Head(s)) THEN lstrip(Tail(s)) ELSE s

RECURSIVE rstrip(_)
rstrip(s) ==
    IF s = <<>> THEN <<>>
    ELSE IF IsSpace(s[Len(s)]) THEN rstrip(SubSeq(s, 1, Len(s) - 1)) ELSE s

\* str.strip
strip(s) == rstrip(lstrip(s))

\* sub in s
Contains(s, sub) ==
    \E i \in 0..(Len(s) - Len(sub)) : SubSeq(s, i + 1, i + Len(sub)) = sub

----------------------------------------------------------------------------
(* read_config *)

\* col_values(n)[1:]
SkipHeader(col) == IF col = <<>> THEN <<>> ELSE Tail(col)

RECURSIVE StripNonEmpty(_)
StripNonEmpty(col) ==
    IF col = <<>> THEN <<>>
    ELSE IF strip(Head(col)) # <<>>
         THEN <<strip(Head(col))>> \o StripNonEmpty(Tail(col))
         ELSE StripNonEmpty(Tail(col))

\* a plausible slip: the competitors kept in the case they were typed in
ConfigCompetitorsNoLower(compcol) == StripNonEmpty(SkipHeader(compcol))

ConfigKeywords(kwcol) == StripNonEmpty(SkipHeader(kwcol))

ConfigCompetitors(compcol) ==
    LET kept == StripNonEmpty(SkipHeader(compcol))
    IN  [i \in 1..Len(kept) |-> lower(kept[i])]

read_config(config_ws) ==
    [keywords |-> ConfigKeywords(config_ws.kwcol),
     competitors |-> ConfigCompetitors(config_ws.compcol)]

----------------------------------------------------------------------------
(* classify_link *)

Competitor == S(<<"Competitor">>)
Other == S(<<"Other">>)

RECURSIVE AnyCompetitorIn(_, _)
AnyCompetitorIn(link_lower, comps) ==
    IF comps = <<>> THEN FALSE
    ELSE IF Contains(link_lower, Head(comps)) THEN TRUE
         ELSE AnyCompetitorIn(link_lower, Tail(comps))

\* a plausible slip: the link compared in the case it came in
classify_link_NoLower(link, comps) ==
    IF ~Truthy(link) THEN Other
    ELSE IF AnyCompetitorIn(link.str, comps) THEN Competitor ELSE Other

classify_link(link, comps) ==
    IF ~Truthy(link) THEN Other
    ELSE IF AnyCompetitorIn(lower(link.str), comps) THEN Competitor ELSE Other

----------------------------------------------------------------------------
(* The worksheet operations of gspread the program calls *)

RECURSIVE TrimTrailingEmpty(_)
TrimTrailingEmpty(row) ==
    IF row = <<>> THEN <<>>
    ELSE IF ~Truthy(row[Len(row)])
         THEN TrimTrailingEmpty(SubSeq(row, 1, Len(row) - 1))
         ELSE row

\* ws.row_values(n): the row's cells up to its last non-empty one
row_values(ws, n) == IF n \in 1..Len(ws) THEN TrimTrailingEmpty(ws[n]) ELSE <<>>

\* ws.insert_row(values, index): the rows from index on move down by one
insert_row(ws, values, index) ==
    SubSeq(ws, 1, index - 1) \o <<values>> \o SubSeq(ws, index, Len(ws))

\* ws.append_row(row): one new trailing row
append_row(ws, row) == ws \o <<row>>

\* a plausible slip: a batch stored last row first
append_rows_Reversed(ws, rows) ==
    ws \o [i \in 1..Len(rows) |-> rows[Len(rows) + 1 - i]]

\* ws.append_rows(rows): new trailing rows, in input order
append_rows(ws, rows) == ws \o rows

----------------------------------------------------------------------------
(* ensure_headers *)

\* a plausible slip: the header inserted without looking at row 1
ensure_headers_Always(ws, headers) == insert_row(ws, headers, 1)

ensure_headers(ws, headers) ==
    IF row_values(ws, 1) = <<>> THEN insert_row(ws, headers, 1) ELSE ws

\* a plausible slip: a header list that lost a column of the row
DataHeaders_NoStatus ==
    <<S(<<"Date">>), S(<<"Keyword">>), S(<<"Position">>),
      S(<<"Title">>), S(<<"Description">>), S(<<"Link">>)>>

DataHeaders ==
    <<S(<<"Date">>), S(<<"Keyword">>), S(<<"Position">>), S(<<"Status">>),
      S(<<"Title">>), S(<<"Description">>), S(<<"Link">>)>>

IdeasHeaders == <<S(<<"SeedKeyword">>), S(<<"RelatedKeyword">>), S(<<"Date">>)>>

----------------------------------------------------------------------------
(* Building the rows *)

\* a plausible slip: the status taken from the "link" key alone
BuildDataRow_StatusFromLinkKey(i, item, keyword, comps, today) ==
    <<today, S(keyword),
      Or(Or(get(item, "position"), get(item, "rank")), N(i)),
      classify_link(Or(get(item, "link"), S(<<>>)), comps),
      Or(get(item, "title"), S(<<>>)),
      Or(Or(get(item, "snippet"), get(item, "description")), S(<<>>)),
      Or(Or(get(item, "link"), get(item, "url")), S(<<>>))>>

\* a plausible slip: the two description keys looked up in the other order
BuildDataRow_DescriptionFirst(i, item, keyword, comps, today) ==
    <<today, S(keyword),
      Or(Or(get(item, "position"), get(item, "rank")), N(i)),
      classify_link(Or(Or(get(item, "link"), get(item, "url")), S(<<>>)), comps),
      Or(get(item, "title"), S(<<>>)),
      Or(Or(get(item, "description"), get(item, "snippet")), S(<<>>)),
      Or(Or(get(item, "link"), get(item, "url")), S(<<>>))>>

\* one pass of the loop over enumerate(organic_results, start=1)
BuildDataRow(i, item, keyword, comps, today) ==
    LET position == Or(Or(get(item, "position"), get(item, "rank")), N(i))
        title == Or(get(item, "title"), S(<<>>))
        description ==
            Or(Or(get(item, "snippet"), get(item, "description")), S(<<>>))
        link == Or(Or(get(item, "link"), get(item, "url")), S(<<>>))
        status == classify_link(link, comps)
    IN  <<today, S(keyword), position, status, title, description, link>>

\* a plausible slip: enumerate without start=1
BuildDataRows_FromZero(keyword, comps, organic_results, today) ==
    [i \in 1..Len(organic_results) |->
        BuildDataRow(i - 1, organic_results[i], keyword, comps, today)]

BuildDataRows(keyword, comps, organic_results, today) ==
    [i \in 1..Len(organic_results) |->
        BuildDataRow(i, organic_results[i], keyword, comps, today)]

\* a plausible slip: the "text" key never looked at
RECURSIVE BuildIdeaRows_QueryOnly(_, _, _)
BuildIdeaRows_QueryOnly(seed_keyword, related_searches, today) ==
    IF related_searches = <<>> THEN <<>>
    ELSE LET item == Head(related_searches)
             query == get(item, "query")
             rest == BuildIdeaRows_QueryOnly(seed_keyword, Tail(related_searches), today)
         IN  IF ~Truthy(query) THEN rest
             ELSE <<<<S(seed_keyword), query, today>>>> \o rest

\* the loop over related_searches: items with no query and no text are skipped
RECURSIVE BuildIdeaRows(_, _, _)
BuildIdeaRows(seed_keyword, related_searches, today) ==
    IF related_searches = <<>> THEN <<>>
    ELSE LET item == Head(related_searches)
             query == Or(get(item, "query"), get(item, "text"))
             rest == BuildIdeaRows(seed_keyword, Tail(related_searches), today)
         IN  IF ~Truthy(query) THEN rest
             ELSE <<<<S(seed_keyword), query, today>>>> \o rest

----------------------------------------------------------------------------
(* Appending a batch.  The store decides how each call ends: st.hdr is how *)
(* ensure_headers ends ("ok", or "raise" when row_values or insert_row     *)
(* raises), st.batch how append_rows ends ("ok", "attr" when the worksheet *)
(* has no append_rows and AttributeError is raised, "raise" for any other  *)
(* exception), st.failAt the row at which append_row raises in the         *)
(* row-by-row loop (0: none).  The result is the worksheet and whether an  *)
(* exception left the call.                                                *)

\* a plausible slip: the row-by-row loop swallowing the exception of a row
FallbackAppend_Swallow(ws, rows, failAt) ==
    [ws |-> IF failAt \in 1..Len(rows)
            THEN ws \o SubSeq(rows, 1, failAt - 1) \o SubSeq(rows, failAt + 1, Len(rows))
            ELSE ws \o rows,
     raised |-> FALSE]

\* a plausible slip: the row-by-row loop walking the batch backwards
FallbackAppend_Reversed(ws, rows, failAt) ==
    [ws |-> ws \o [i \in 1..Len(rows) |-> rows[Len(rows) + 1 - i]],
     raised |-> FALSE]

\* for row in rows: ws.append_row(row)
RECURSIVE FallbackLoop(_, _, _, _)
FallbackLoop(ws, rows, i, failAt) ==
    IF i > Len(rows) THEN [ws |-> ws, raised |-> FALSE]
    ELSE IF i = failAt THEN [ws |-> ws, raised |-> TRUE]
         ELSE FallbackLoop(append_row(ws, rows[i]), rows, i + 1, failAt)

FallbackAppend(ws, rows, failAt) == FallbackLoop(ws, rows, 1, failAt)

\* try: ws.append_rows(rows) / except AttributeError: the row-by-row loop
AppendBatch(ws, rows, st) ==
    CASE st.batch = "ok" -> [ws |-> append_rows(ws, rows), raised |-> FALSE]
      [] st.batch = "attr" -> FallbackAppend(ws, rows, st.failAt)
      [] st.batch = "raise" -> [ws |-> ws, raised |-> TRUE]

\* a plausible slip: the writer catching whatever the store raises
WriteRows_NoRaise(ws, headers, rows, st) ==
    IF st.hdr = "raise" THEN [ws |-> ws, raised |-> FALSE]
    ELSE LET headed == ensure_headers(ws, headers)
         IN  IF rows = <<>> THEN [ws |-> headed, raised |-> FALSE]
             ELSE [ws |-> AppendBatch(headed, rows, st).ws, raised |-> FALSE]

\* ensure_headers, then the batch if there is one
WriteRows(ws, headers, rows, st) ==
    IF st.hdr = "raise" THEN [ws |-> ws, raised |-> TRUE]
    ELSE LET headed == ensure_headers(ws, headers)
         IN  IF rows = <<>> THEN [ws |-> headed, raised |-> FALSE]
             ELSE AppendBatch(headed, rows, st)

append_results_to_data_sheet(data_ws, keyword, comps, organic_results, today, st) ==
    WriteRows(data_ws, DataHeaders,
              BuildDataRows(keyword, comps, organic_results, today), st)

append_related_searches_to_sheet(kw_ideas_ws, seed_keyword, related_searches, today, st) ==
    WriteRows(kw_ideas_ws, IdeasHeaders,
              BuildIdeaRows(seed_keyword, related_searches, today), st)

----------------------------------------------------------------------------
(* Bounds and inputs of the pipeline *)

MaxRuns == 2
MaxDay == 2

HdrKeywords == <<"Keywords">>
HdrCompetitors == <<"Competitors">>
kwX == <<"x">>
kwY == <<"y">>

\* Config worksheets: column A (keywords) and column B (competitors), as typed
Configs ==
    { [kwcol |-> <<HdrKeywords, <<" ", "x">>, <<" ">>, <<"y", " ">>>>,
       compcol |-> <<HdrCompetitors, <<"A", "b", " ">>>>],
      [kwcol |-> <<HdrKeywords, <<"x">>>>,
       compcol |-> <<HdrCompetitors>>],
      [kwcol |-> <<HdrKeywords, <<" ">>>>,
       compcol |-> <<HdrCompetitors, <<"b">>>>] }

\* listing items as the provider may send them
ItemFull ==
    [position |-> N(3), title |-> S(<<"t">>), snippet |-> S(<<"s">>),
     link |-> S(<<"a", "b">>)]
ItemFallback ==
    [rank |-> N(2), title |-> None, snippet |-> S(<<>>),
     description |-> S(<<"d">>), url |-> S(<<"x", "A", "B">>)]
ItemBare == [title |-> S(<<"t">>)]

QueryItem == [query |-> S(<<"q">>)]
TextItem == [query |-> S(<<>>), text |-> S(<<"r">>)]
NoQueryItem == [link |-> S(<<"a">>)]

\* responses of the provider
Responses ==
    { [organic_results |-> <<ItemFull, ItemFallback>>,
       related_searches |-> <<QueryItem, NoQueryItem, TextItem>>],
      [organic_results |-> <<>>, organic |-> <<ItemBare>>,
       relatedSearches |-> <<NoQueryItem>>],
      [organic_results |-> <<>>, related_searches |-> <<QueryItem>>],
      [search_metadata |-> <<>>] }

\* how a fetch ends: raise_for_status raising requests.HTTPError, any other
\* exception (a timeout, a body that is no JSON), or a response
FetchOutcomes ==
    {[kind |-> "http_error", result |-> <<>>], [kind |-> "error", result |-> <<>>]}
    \cup {[kind |-> "ok", result |-> r] : r \in Responses}

\* how the store calls of one writer call end
StoreOutcomes ==
    { [hdr |-> "ok", batch |-> "ok", failAt |-> 0],
      [hdr |-> "raise", batch |-> "ok", failAt |-> 0],
      [hdr |-> "ok", batch |-> "raise", failAt |-> 0],
      [hdr |-> "ok", batch |-> "attr", failAt |-> 0],
      [hdr |-> "ok", batch |-> "attr", failAt |-> 1],
      [hdr |-> "ok", batch |-> "attr", failAt |-> 2] }

\* the rows of a batch the store took (history)
Accepted(rows, st) ==
    IF st.hdr = "raise" \/ st.batch = "raise" THEN <<>>
    ELSE IF st.batch = "attr" /\ st.failAt \in 1..Len(rows)
         THEN SubSeq(rows, 1, st.failAt - 1)
         ELSE rows

NoStore == [hdr |-> "none", batch |-> "none", failAt |-> 0]

NoAppend ==
    [table |-> "none", rows |-> <<>>, batch |-> "none", st |-> NoStore,
     raised |-> FALSE]

----------------------------------------------------------------------------
(* main *)

\* datetime.utcnow().strftime("%Y-%m-%d")
strftime(day) == S(<<"2025-01-0" \o ToString(day)>>)

\* result.get("organic_results") or result.get("organic") or []
OrganicResults(res) ==
    IF "organic_results" \in DOMAIN res /\ res.organic_results # <<>>
    THEN res.organic_results
    ELSE IF "organic" \in DOMAIN res /\ res.organic # <<>>
         THEN res.organic
         ELSE <<>>

\* result.get("related_searches") or result.get("relatedSearches") or []
RelatedSearches(res) ==
    IF "related_searches" \in DOMAIN res /\ res.related_searches # <<>>
    THEN res.related_searches
    ELSE IF "relatedSearches" \in DOMAIN res /\ res.relatedSearches # <<>>
         THEN res.relatedSearches
         ELSE <<>>

Running == pc \in {"fetch", "write_data", "write_ideas"}
Terminated == pc \in {"done", "exited", "crashed", "killed"}

Init ==
    /\ cfg \in Configs
    /\ data = <<>>
    /\ ideas = <<>>
    /\ pc = "idle"
    /\ exitCode = -1
    /\ keywords = <<>>
    /\ competitors = <<>>
    /\ today_str = None
    /\ idx = 0
    /\ result = <<>>
    /\ attempted = <<>>
    /\ log = <<>>
    /\ runs = 0
    /\ clock = 1
    /\ lastAppend = NoAppend
    /\ written = [data |-> <<>>, ideas |-> <<>>]
    /\ arg = <<>>
    /\ ret = <<>>
    /\ callers = <<>>

\* a plausible slip: no keyword configured treated as a failure
Start_NoKeywordsFails(env) ==
    /\ pc = "idle" \/ Terminated
    /\ runs < MaxRuns
    /\ runs' = runs + 1
    /\ attempted' = <<>>
    /\ result' = <<>>
    /\ idx' = 1
    /\ lastAppend' = NoAppend
    /\ IF env # "ok"
       THEN /\ pc' = "exited"
            /\ exitCode' = 1
            /\ log' = <<[kind |-> env, keyword |-> <<>>]>>
            /\ keywords' = <<>>
            /\ competitors' = <<>>
            /\ today_str' = None
       ELSE LET c == read_config(cfg)
            IN  /\ keywords' = c.keywords
                /\ competitors' = c.competitors
                /\ IF c.keywords = <<>>
                   THEN /\ pc' = "exited"
                        /\ exitCode' = 1
                        /\ log' = <<>>
                        /\ today_str' = None
                   ELSE /\ pc' = "fetch"
                        /\ exitCode' = -1
                        /\ log' = <<>>
                        /\ today_str' = strftime(clock)
    /\ UNCHANGED <<cfg, data, ideas, clock, written, arg, ret, callers>>

\* a new process: main() up to the first keyword.  env is what the process
\* finds: a required environment variable unset, credentials that are no
\* JSON, no Config worksheet, or all of them in place.
Start(env) ==
    /\ pc = "idle" \/ Terminated
    /\ runs < MaxRuns
    /\ runs' = runs + 1
    /\ attempted' = <<>>
    /\ result' = <<>>
    /\ idx' = 1
    /\ lastAppend' = NoAppend
    /\ IF env # "ok"
       THEN /\ pc' = "exited"
            /\ exitCode' = 1
            /\ log' = <<[kind |-> env, keyword |-> <<>>]>>
            /\ keywords' = <<>>
            /\ competitors' = <<>>
            /\ today_str' = None
       ELSE LET c == read_config(cfg)
            IN  /\ keywords' = c.keywords
                /\ competitors' = c.competitors
                /\ IF c.keywords = <<>>
                   THEN /\ pc' = "exited"
                        /\ exitCode' = 0
                        /\ log' = <<>>
                        /\ today_str' = None
                   ELSE /\ pc' = "fetch"
                        /\ exitCode' = -1
                        /\ log' = <<>>
                        /\ today_str' = strftime(clock)
    /\ UNCHANGED <<cfg, data, ideas, clock, written, arg, ret, callers>>

\* the end of one pass of the for loop: the next keyword, or the end of main
Advance ==
    IF idx < Len(keywords)
    THEN /\ idx' = idx + 1
         /\ pc' = "fetch"
         /\ exitCode' = -1
    ELSE /\ idx' = idx
         /\ pc' = "done"
         /\ exitCode' = 0

\* a plausible slip: the fetch called outside any try
Fetch_NoCatch(out) ==
    /\ pc = "fetch"
    /\ attempted' = Append(attempted, keywords[idx])
    /\ IF out.kind = "ok"
       THEN /\ result' = out.result
            /\ pc' = "write_data"
            /\ UNCHANGED <<idx, exitCode, log>>
       ELSE /\ result' = <<>>
            /\ log' = Append(log, [kind |-> out.kind, keyword |-> keywords[idx]])
            /\ pc' = "crashed"
            /\ exitCode' = 1
            /\ UNCHANGED idx
    /\ UNCHANGED <<cfg, data, ideas, keywords, competitors, today_str, runs,
                   clock, lastAppend, written, arg, ret, callers>>

\* fetch_serpapi_results for keywords[idx], inside main's try
Fetch(out) ==
    /\ pc = "fetch"
    /\ attempted' = Append(attempted, keywords[idx])
    /\ IF out.kind = "ok"
       THEN /\ result' = out.result
            /\ pc' = "write_data"
            /\ UNCHANGED <<idx, exitCode, log>>
       ELSE /\ result' = <<>>
            /\ log' = Append(log, [kind |-> out.kind, keyword |-> keywords[idx]])
            /\ Advance
    /\ UNCHANGED <<cfg, data, ideas, keywords, competitors, today_str, runs,
                   clock, lastAppend, written, arg, ret, callers>>

\* a plausible slip: the date taken from the clock at each keyword's write
WriteData_DatePerKeyword(st) ==
    /\ pc = "write_data"
    /\ LET organic_results == OrganicResults(result)
           rows == BuildDataRows(keywords[idx], competitors, organic_results,
                                 strftime(clock))
           r == append_results_to_data_sheet(data, keywords[idx], competitors,
                                             organic_results, strftime(clock), st)
       IN  IF organic_results = <<>>
           THEN /\ pc' = "write_ideas"
                /\ UNCHANGED <<data, exitCode, log, lastAppend, written>>
           ELSE /\ data' = r.ws
                /\ lastAppend' = [table |-> "Data", rows |-> rows,
                                  batch |-> st.batch, st |-> st,
                                  raised |-> r.raised]
                /\ written' = [written EXCEPT !.data = @ \o Accepted(rows, st)]
                /\ IF r.raised
                   THEN /\ pc' = "crashed"
                        /\ exitCode' = 1
                        /\ log' = Append(log, [kind |-> "traceback", keyword |-> keywords[idx]])
                   ELSE /\ pc' = "write_ideas"
                        /\ UNCHANGED <<exitCode, log>>
    /\ UNCHANGED <<cfg, ideas, keywords, competitors, today_str, idx, result,
                   attempted, runs, clock, arg, ret, callers>>

\* a plausible slip: the header written before the listings are looked at
WriteData_HeaderAnyway(st) ==
    /\ pc = "write_data"
    /\ LET organic_results == OrganicResults(result)
           rows == BuildDataRows(keywords[idx], competitors, organic_results, today_str)
           r == append_results_to_data_sheet(data, keywords[idx], competitors,
                                             organic_results, today_str, st)
       IN  /\ data' = r.ws
           /\ lastAppend' = [table |-> "Data", rows |-> rows,
                             batch |-> st.batch, st |-> st,
                             raised |-> r.raised]
           /\ written' = [written EXCEPT !.data = @ \o Accepted(rows, st)]
           /\ IF r.raised
              THEN /\ pc' = "crashed"
                   /\ exitCode' = 1
                   /\ log' = Append(log, [kind |-> "traceback", keyword |-> keywords[idx]])
              ELSE /\ pc' = "write_ideas"
                   /\ UNCHANGED <<exitCode, log>>
    /\ UNCHANGED <<cfg, ideas, keywords, competitors, today_str, idx, result,
                   attempted, runs, clock, arg, ret, callers>>

\* if organic_results: append_results_to_data_sheet(...)
WriteData(st) ==
    /\ pc = "write_data"
    /\ LET organic_results == OrganicResults(result)
           rows == BuildDataRows(keywords[idx], competitors, organic_results, today_str)
           r == append_results_to_data_sheet(data, keywords[idx], competitors,
                                             organic_results, today_str, st)
       IN  IF organic_results = <<>>
           THEN /\ pc' = "write_ideas"
                /\ UNCHANGED <<data, exitCode, log, lastAppend, written>>
           ELSE /\ data' = r.ws
                /\ lastAppend' = [table |-> "Data", rows |-> rows,
                                  batch |-> st.batch, st |-> st,
                                  raised |-> r.raised]
                /\ written' = [written EXCEPT !.data = @ \o Accepted(rows, st)]
                /\ IF r.raised
                   THEN /\ pc' = "crashed"
                        /\ exitCode' = 1
                        /\ log' = Append(log, [kind |-> "traceback", keyword |-> keywords[idx]])
                   ELSE /\ pc' = "write_ideas"
                        /\ UNCHANGED <<exitCode, log>>
    /\ UNCHANGED <<cfg, ideas, keywords, competitors, today_str, idx, result,
                   attempted, runs, clock, arg, ret, callers>>

\* if related_searches: append_related_searches_to_sheet(...), then the
\* next pass of the loop
WriteIdeas(st) ==
    /\ pc = "write_ideas"
    /\ LET related_searches == RelatedSearches(result)
           rows == BuildIdeaRows(keywords[idx], related_searches, today_str)
           r == append_related_searches_to_sheet(ideas, keywords[idx],
                                                 related_searches, today_str, st)
       IN  IF related_searches = <<>>
           THEN /\ Advance
                /\ UNCHANGED <<ideas, log, lastAppend, written>>
           ELSE /\ ideas' = r.ws
                /\ lastAppend' = [table |-> "Keyword_Ideas", rows |-> rows,
                                  batch |-> st.batch, st |-> st,
                                  raised |-> r.raised]
                /\ written' = [written EXCEPT !.ideas = @ \o Accepted(rows, st)]
                /\ IF r.raised
                   THEN /\ pc' = "crashed"
                        /\ exitCode' = 1
                        /\ log' = Append(log, [kind |-> "traceback", keyword |-> keywords[idx]])
                        /\ UNCHANGED idx
                   ELSE /\ UNCHANGED log
                        /\ Advance
    /\ UNCHANGED <<cfg, data, keywords, competitors, today_str, result,
                   attempted, runs, clock, arg, ret, callers>>

\* the process is terminated from outside while the loop runs
Kill ==
    /\ Running
    /\ pc' = "killed"
    /\ exitCode' = 137
    /\ UNCHANGED <<cfg, data, ideas, keywords, competitors, today_str, idx,
                   result, attempted, log, runs, clock, lastAppend, written,
                   arg, ret, callers>>

\* midnight UTC passes
Tick ==
    /\ clock < MaxDay
    /\ clock' = clock + 1
    /\ UNCHANGED <<cfg, data, ideas, pc, exitCode, keywords, competitors,
                   today_str, idx, result, attempted, log, runs, lastAppend,
                   written, arg, ret, callers>>

Environments == {"ok", "no_env", "bad_credentials", "no_config"}

Next ==
    \/ \E env \in Environments : Start(env)
    \/ \E out \in FetchOutcomes : Fetch(out)
    \/ \E st \in StoreOutcomes : WriteData(st)
    \/ \E st \in StoreOutcomes : WriteIdeas(st)
    \/ Kill

Spec == Init /\ [][Next]_vars

\* one run, with the clock running
NextClock ==
    \/ \E env \in Environments : runs = 0 /\ Start(env)
    \/ \E out \in FetchOutcomes : Fetch(out)
    \/ \E st \in StoreOutcomes : WriteData(st)
    \/ \E st \in StoreOutcomes : WriteIdeas(st)
    \/ Kill
    \/ Tick

SpecClock == Init /\ [][NextClock]_vars

----------------------------------------------------------------------------
(* Function harnesses: one call of a function on inputs drawn from bounded *)
(* sets, with no run of main in progress.                                  *)

Pending == [pending |-> TRUE]

PipelineAtRest ==
    /\ cfg = [kwcol |-> <<>>, compcol |-> <<>>]
    /\ ideas = <<>>
    /\ pc = "idle"
    /\ exitCode = -1
    /\ keywords = <<>>
    /\ competitors = <<>>
    /\ today_str = None
    /\ idx = 0
    /\ result = <<>>
    /\ attempted = <<>>
    /\ log = <<>>
    /\ runs = 0
    /\ clock = 1
    /\ lastAppend = NoAppend
    /\ written = [data |-> <<>>, ideas |-> <<>>]

\* the strings of at most n characters
Strs(chars, n) == UNION {[1..k -> chars] : k \in 0..n}

(* classify_link on the competitors read_config makes of column B *)

MaxLinkLen == 3
MaxCompLen == 2
MaxComps == 1
LinkChars == {"a", "A", "b"}
CompChars == {"a", "B", " "}

InitClassify ==
    /\ PipelineAtRest
    /\ callers = <<>>
    /\ data = <<>>
    /\ arg \in [link : {S(l) : l \in Strs(LinkChars, MaxLinkLen)},
                compcol : {<<HdrCompetitors>> \o c :
                              c \in Strs(Strs(CompChars, MaxCompLen), MaxComps)}]
    /\ ret = Pending

ClassifyCall ==
    /\ ret = Pending
    /\ ret' = classify_link(arg.link, ConfigCompetitors(arg.compcol))
    /\ UNCHANGED <<pipelineVars, arg, callers>>

SpecClassify == InitClassify /\ [][ClassifyCall]_vars

(* one pass of the row-building loop of append_results_to_data_sheet *)

TextKeys == {"title", "snippet", "description", "link", "url"}
NumberKeys == {"position", "rank"}
ItemKeys == TextKeys \cup NumberKeys
Shapes == {"absent", "none", "empty", "value"}

\* what a key holds when it holds a value: one character naming the key, or
\* a number
KeyValue(k) ==
    CASE k = "title" -> S(<<"t">>)
      [] k = "snippet" -> S(<<"s">>)
      [] k = "description" -> S(<<"d">>)
      [] k = "link" -> S(<<"l">>)
      [] k = "url" -> S(<<"U">>)
      [] k = "position" -> N(3)
      [] k = "rank" -> N(2)

EmptyValue(k) == IF k \in NumberKeys THEN N(0) ELSE S(<<>>)

\* the item in which each key has the shape f gives it
MkItem(f) ==
    [k \in {x \in ItemKeys : f[x] # "absent"} |->
        CASE f[k] = "none" -> None
          [] f[k] = "empty" -> EmptyValue(k)
          [] f[k] = "value" -> KeyValue(k)]

HarnessCompetitors == <<<<"u">>>>

InitNormalize ==
    /\ PipelineAtRest
    /\ callers = <<>>
    /\ data = <<>>
    /\ arg \in [item : {MkItem(f) : f \in [ItemKeys -> Shapes]}, i : {1, 2}]
    /\ ret = Pending

NormalizeCall ==
    /\ ret = Pending
    /\ ret' = BuildDataRow(arg.i, arg.item, kwX, HarnessCompetitors, strftime(1))
    /\ UNCHANGED <<pipelineVars, arg, callers>>

SpecNormalize == InitNormalize /\ [][NormalizeCall]_vars

(* ensure_headers and the append calls, in any order, on one worksheet *)

MaxSheetRows == 4

ForeignHeaders == <<S(<<"Name">>), S(<<"Note">>)>>
BlankRow == <<S(<<>>), S(<<>>)>>
RowA == <<S(<<"a">>), S(<<>>)>>
RowB == <<S(<<>>), S(<<"b">>), S(<<"b">>)>>

InitialSheets ==
    {<<>>, <<ForeignHeaders, RowA>>, <<BlankRow, RowA>>, <<RowB>>, <<DataHeaders>>}
HeaderChoices == {DataHeaders, IdeasHeaders, ForeignHeaders}
BatchChoices == {<<RowA>>, <<RowB, RowA>>}

InitSheet ==
    /\ PipelineAtRest
    /\ callers = <<>>
    /\ data \in InitialSheets
    /\ arg = <<>>
    /\ ret = Pending

CallEnsureHeaders(h) ==
    /\ Len(data) < MaxSheetRows
    /\ data' = ensure_headers(data, h)
    /\ ret' = [op |-> "ensure_headers", headers |-> h]
    /\ UNCHANGED <<cfg, ideas, pc, exitCode, keywords, competitors, today_str,
                   idx, result, attempted, log, runs, clock, lastAppend,
                   written, arg, callers>>

CallAppendRows(rows) ==
    /\ Len(data) + Len(rows) <= MaxSheetRows
    /\ data' = append_rows(data, rows)
    /\ ret' = [op |-> "append_rows", headers |-> <<>>]
    /\ UNCHANGED <<cfg, ideas, pc, exitCode, keywords, competitors, today_str,
                   idx, result, attempted, log, runs, clock, lastAppend,
                   written, arg, callers>>

CallAppendRow(row) ==
    /\ Len(data) < MaxSheetRows
    /\ data' = append_row(data, row)
    /\ ret' = [op |-> "append_row", headers |-> <<>>]
    /\ UNCHANGED <<cfg, ideas, pc, exitCode, keywords, competitors, today_str,
                   idx, result, attempted, log, runs, clock, lastAppend,
                   written, arg, callers>>

\* a writer call: ensure_headers, then the batch
CallWriteRows(h, rows, st) ==
    /\ Len(data) + Len(rows) < MaxSheetRows
    /\ data' = WriteRows(data, h, rows, st).ws
    /\ ret' = [op |-> "write_rows", headers |-> h]
    /\ UNCHANGED <<cfg, ideas, pc, exitCode, keywords, competitors, today_str,
                   idx, result, attempted, log, runs, clock, lastAppend,
                   written, arg, callers>>

NextSheet ==
    \/ \E h \in HeaderChoices : CallEnsureHeaders(h)
    \/ \E rows \in BatchChoices : CallAppendRows(rows)
    \/ \E row \in {RowA, RowB} : CallAppendRow(row)
    \/ \E h \in HeaderChoices, rows \in BatchChoices, st \in StoreOutcomes :
          CallWriteRows(h, rows, st)

SpecSheet == InitSheet /\ [][NextSheet]_vars

----------------------------------------------------------------------------
(* Properties *)

IsPrefix(a, b) == Len(a) <= Len(b) /\ SubSeq(b, 1, Len(a)) = a

\* the trimmed, non-empty entries of column B below its header
CompetitorSet(compcol) == {strip(compcol[i]) : i \in 2..Len(compcol)} \ {<<>>}

\* Competitor iff some competitor, lower-cased, is a substring of the
\* lower-cased link
ExpectedStatus(link, compcol) ==
    IF \E c \in CompetitorSet(compcol) : Contains(lower(link), lower(c))
    THEN Competitor
    ELSE Other

\* the step in which the loop logs a failed fetch
FetchFailureLogged ==
    /\ Len(log') = Len(log) + 1
    /\ log'[Len(log')].kind \in {"http_error", "error"}

\* C1: a step of the keyword loop in which the fetch fails (HTTPError or any
\* other exception) leaves the Data and the Keyword_Ideas worksheet unchanged,
\* no header and no row written, and goes on to the next keyword, or to the
\* normal end of main with exit code 0 after the last one.
C1_FetchFailureWritesNothing ==
    [][FetchFailureLogged =>
          /\ data' = data
          /\ ideas' = ideas
          /\ written' = written
          /\ IF idx < Len(keywords)
             THEN pc' = "fetch" /\ idx' = idx + 1
             ELSE pc' = "done" /\ exitCode' = 0]_vars

\* keywords [x, y]: the fetch for x failed, y returned one listing; the run
\* ended with exit code 0 and one listing row, for y
C1_Witness ==
    /\ pc = "done"
    /\ exitCode = 0
    /\ runs = 1
    /\ keywords = <<kwX, kwY>>
    /\ log = <<[kind |-> "http_error", keyword |-> kwX]>>
    /\ Len(data) = 2
    /\ data[1] = DataHeaders
    /\ data[2][2] = S(kwY)

\* C2: a run that started the keyword loop and ended by itself ended in DONE,
\* having attempted every configured keyword once, in configuration order; it
\* never ends early because of what happened to one keyword.
C2_RunReachesDone ==
    pc \in {"done", "crashed"} => (pc = "done" /\ attempted = keywords)

\* C3: once row 1 of a worksheet is non-empty, no ensure_headers and no
\* append call changes it.
C3_HeaderNeverOverwritten ==
    [][row_values(data, 1) # <<>> => (data' # <<>> /\ data'[1] = data[1])]_vars

\* ensure_headers was called with other headers than the ones in row 1, and
\* rows were appended below
C3_Witness ==
    /\ ret # Pending
    /\ ret.op = "ensure_headers"
    /\ Len(data) >= 3
    /\ data[1] = ForeignHeaders
    /\ ret.headers = DataHeaders

HeaderRows(ws, headers) == {i \in 1..Len(ws) : ws[i] = headers}

\* C4: however many times a run calls ensure_headers on a worksheet that
\* started empty, with appends in between, the worksheet holds exactly one
\* header row, in row 1, and one more call changes nothing.
C4_ExactlyOneHeaderRow ==
    /\ data # <<>> =>
          /\ HeaderRows(data, DataHeaders) = {1}
          /\ ensure_headers(data, DataHeaders) = data
    /\ ideas # <<>> =>
          /\ HeaderRows(ideas, IdeasHeaders) = {1}
          /\ ensure_headers(ideas, IdeasHeaders) = ideas

\* both keywords of a run wrote listings and related searches: ensure_headers
\* ran twice on each worksheet, with an append in between
C4_Witness ==
    /\ \E i, j \in 2..Len(data) : data[i][2] = S(kwX) /\ data[j][2] = S(kwY)
    /\ \E i, j \in 2..Len(ideas) : ideas[i][1] = S(kwX) /\ ideas[j][1] = S(kwY)

TableHolds(ws, headers, rows) ==
    \/ ws = <<>> /\ rows = <<>>
    \/ ws = <<headers>> \o rows

\* C5: the data rows of each worksheet are the rows the store took, batch
\* after batch in call order and in the order of each batch, also across runs
\* and after a run that ended part-way; and no step removes, changes or moves
\* a row that was there.
C5_AppendOnly ==
    /\ [](/\ TableHolds(data, DataHeaders, written.data)
          /\ TableHolds(ideas, IdeasHeaders, written.ideas))
    /\ [][IsPrefix(data, data') /\ IsPrefix(ideas, ideas')]_vars

\* a first run stopped inside the row-by-row loop after one row of a batch of
\* two, and a second run appended below it
C5_Witness ==
    /\ runs = 2
    /\ Len(data) >= 4
    /\ data[2][3] = N(3)
    /\ data[3][3] = N(3)
    /\ data[4][3] = N(2)

\* C6: every data row of Data and of Keyword_Ideas has as many columns as
\* row 1, the header row, of its worksheet.
C6_RowWidthIsHeaderWidth ==
    /\ \A i \in 2..Len(data) : Len(data[i]) = Len(data[1])
    /\ \A i \in 2..Len(ideas) : Len(ideas[i]) = Len(ideas[1])

\* both worksheets hold data rows, one of them with an empty last cell
C6_Witness ==
    /\ Len(ideas) >= 3
    /\ \E i \in 2..Len(data) : data[i][7] = S(<<>>)

LastTable == IF lastAppend.table = "Data" THEN data ELSE ideas

\* the batch is the tail of the worksheet
BatchLanded(ws, rows) ==
    /\ Len(ws) >= Len(rows)
    /\ SubSeq(ws, Len(ws) - Len(rows) + 1, Len(ws)) = rows

\* C7: a writer call either ends with an exception, which ends the run with
\* exit code 1, or returns with every row of its batch in the worksheet, also
\* when append_rows was rejected and the rows went in one at a time.
C7_NoRowSilentlyDropped ==
    lastAppend.table # "none" =>
        IF lastAppend.raised
        THEN pc = "crashed" /\ exitCode = 1
        ELSE BatchLanded(LastTable, lastAppend.rows)

\* append_rows was rejected and the two rows of the batch went in one by one
C7_Witness ==
    /\ lastAppend.batch = "attr"
    /\ ~lastAppend.raised
    /\ Len(lastAppend.rows) = 2
    /\ BatchLanded(LastTable, lastAppend.rows)

C9_StatusFromLinkAlone ==
    \A i \in 2..Len(data) :
        data[i][4] = ExpectedStatus(data[i][7].str, cfg.compcol)

\* a link taken from "url", in upper case, classified Competitor, above a row
\* classified Other
C9_Witness ==
    \E i, j \in 2..Len(data) :
        /\ data[i][4] = Competitor
        /\ data[i][7] = S(<<"x", "A", "B">>)
        /\ data[j][4] = Other

\* the first of the keys that the item holds with a non-empty value, else ""
FirstNonEmpty(item, keys) ==
    LET good == {j \in 1..Len(keys) :
                    /\ keys[j] \in DOMAIN item
                    /\ item[keys[j]] # None
                    /\ item[keys[j]] # S(<<>>)}
    IN  IF good = {} THEN S(<<>>)
        ELSE item[keys[CHOOSE j \in good : \A k \in good : j <= k]]

\* C10: in the row built from an item, Title, Description and Link are the
\* first non-empty value among title; snippet, description; link, url; and
\* the empty string when there is none. No cell of the row is None.
C10_OrderedFallbacks ==
    ret # Pending =>
        /\ ret[5] = FirstNonEmpty(arg.item, <<"title">>)
        /\ ret[6] = FirstNonEmpty(arg.item, <<"snippet", "description">>)
        /\ ret[7] = FirstNonEmpty(arg.item, <<"link", "url">>)
        /\ \A j \in 1..Len(ret) : ret[j] # None

\* an item with both description keys, an empty link beside a url, no title
C10_Witness ==
    /\ ret # Pending
    /\ arg.item = [snippet |-> S(<<"s">>), description |-> S(<<"d">>),
                   link |-> S(<<>>), url |-> S(<<"U">>), rank |-> None]
    /\ ret[5] = S(<<>>)
    /\ ret[6] = S(<<"s">>)
    /\ ret[7] = S(<<"U">>)

----------------------------------------------------------------------------
(* C11: the run date *)

\* the dates the clock has shown up to now
DatesSoFar == {strftime(d) : d \in 1..clock}

DataDates == {data[i][1] : i \in 2..Len(data)}

IdeasDates == {ideas[i][3] : i \in 2..Len(ideas)}

\* C11: the run date is fixed when the run starts, before the first keyword,
\* and does not change while the run lasts; every row the run writes to Data
\* and to Keyword_Ideas carries that date, also when the clock has passed
\* into the next UTC day since.
C11_RowsCarryRunDate ==
    /\ [](/\ DataDates \subseteq {today_str}
          /\ IdeasDates \subseteq {today_str}
          /\ (Running \/ pc \in {"done", "crashed", "killed"})
                => today_str \in DatesSoFar)
    /\ [][pc # "idle" => today_str' = today_str]_vars

\* a run that started on day 1 has written listings and related searches of
\* its second keyword after midnight
C11_Witness ==
    /\ clock > 1
    /\ today_str = strftime(1)
    /\ idx = 2
    /\ lastAppend.table = "Keyword_Ideas"
    /\ DataDates = {strftime(1)}
    /\ IdeasDates = {strftime(1)}
    /\ Len(data) > 3

----------------------------------------------------------------------------
(* C13: exit codes *)

StartupFailures == {"no_env", "bad_credentials", "no_config"}

\* the run stopped on a missing environment variable, unparsable
\* credentials or a missing Config worksheet
StartupFailed == log # <<>> /\ log[1].kind \in StartupFailures

\* column A of Config holds nothing but blanks below its header
NoKeywordConfigured ==
    \A i \in 2..Len(cfg.kwcol) :
        \A j \in 1..Len(cfg.kwcol[i]) : cfg.kwcol[i][j] = " "

\* C13: a run that finds a required environment variable unset or empty,
\* credentials that are no JSON, or no Config worksheet exits with code 1
\* and has written nothing to either table; a run that completes exits with
\* code 0, and so does a run that finds no keyword configured, which writes
\* no header and no row.
C13_ExitCodes ==
    /\ [](/\ StartupFailed => (pc = "exited" /\ exitCode = 1)
          /\ (runs > 0 /\ ~StartupFailed /\ NoKeywordConfigured)
                => (pc = "exited" /\ exitCode = 0)
          /\ (pc = "exited" /\ ~StartupFailed) => NoKeywordConfigured
          /\ pc = "done" => exitCode = 0)
    /\ [][pc' = "exited" => (data' = data /\ ideas' = ideas)]_vars

\* after a run that wrote listings, a second run finds no Config worksheet:
\* exit code 1, the tables as the first run left them
C13_Witness ==
    /\ runs = 2
    /\ pc = "exited"
    /\ exitCode = 1
    /\ log = <<[kind |-> "no_config", keyword |-> <<>>]>>
    /\ Len(data) > 1

\* the first run finds no keyword: exit code 0 and both tables empty
C13_WitnessNoKeywords ==
    /\ runs = 1
    /\ pc = "exited"
    /\ exitCode = 0
    /\ NoKeywordConfigured
    /\ data = <<>>
    /\ ideas = <<>>

----------------------------------------------------------------------------
(* C14: a keyword without listings *)

\* what the provider sent under either of two keys, empty when neither holds
\* anything
Sent(res, k1, k2) ==
    IF k1 \in DOMAIN res /\ res[k1] # <<>> THEN res[k1]
    ELSE IF k2 \in DOMAIN res THEN res[k2] ELSE <<>>

NonEmptyStr(item, k) == k \in DOMAIN item /\ IsStr(item[k]) /\ item[k].str # <<>>

\* the related keyword of an item: its query, else its text
RelatedKeyword(item) ==
    IF NonEmptyStr(item, "query") THEN item.query ELSE item.text

\* one row [seed keyword, related keyword, date] per item of related that
\* has a related keyword, in the order of related
RECURSIVE ExpectedIdeaRows(_, _, _)
ExpectedIdeaRows(seed, related, date) ==
    IF related = <<>> THEN <<>>
    ELSE LET item == Head(related)
             rest == ExpectedIdeaRows(seed, Tail(related), date)
         IN  IF NonEmptyStr(item, "query") \/ NonEmptyStr(item, "text")
             THEN <<<<S(seed), RelatedKeyword(item), date>>>> \o rest
             ELSE rest

NoListings == Sent(result, "organic_results", "organic") = <<>>

RelatedSent == Sent(result, "related_searches", "relatedSearches")

MovedOn ==
    \/ pc' = "fetch" /\ idx' = idx + 1
    \/ pc' = "done" /\ idx = Len(keywords)

\* C14: for a keyword whose response holds no listing, the write step of
\* Data changes nothing, logs nothing and goes on to the related searches;
\* a non-empty list of related searches is then appended to Keyword_Ideas
\* as rows [seed keyword, query, run date] under the header, and the loop
\* moves on; a keyword with no related search leaves Keyword_Ideas as it
\* is and the loop moves on as well.
C14_EmptyListingsStillWriteIdeas ==
    /\ [][(pc = "write_data" /\ NoListings /\ pc' # "killed")
            => (data' = data /\ log' = log /\ written' = written
                /\ pc' = "write_ideas")]_vars
    /\ [][(pc = "write_ideas" /\ NoListings /\ RelatedSent # <<>>
           /\ pc' \notin {"killed", "crashed"})
            => (/\ ideas' = ensure_headers(ideas, IdeasHeaders)
                              \o ExpectedIdeaRows(keywords[idx], RelatedSent, today_str)
                /\ data' = data
                /\ log' = log
                /\ MovedOn)]_vars
    /\ [][(pc = "write_ideas" /\ RelatedSent = <<>> /\ pc' # "killed")
            => (ideas' = ideas /\ data' = data /\ log' = log /\ MovedOn)]_vars

\* the first keyword of the first run came back with no listing and one
\* related search: Data is still empty, Keyword_Ideas holds the header and
\* the row of the related search, and the loop has moved on
C14_Witness ==
    /\ runs = 1
    /\ pc \in {"fetch", "done"}
    /\ log = <<>>
    /\ data = <<>>
    /\ ideas = <<IdeasHeaders, <<S(kwX), S(<<"q">>), today_str>>>>
    /\ lastAppend.table = "Keyword_Ideas"
    /\ ~lastAppend.raised

----------------------------------------------------------------------------
(* C17: a store failure in a write step *)

\* a store call of the writer call raised something the writer does not
\* handle: in ensure_headers, in append_rows (other than AttributeError), or
\* in append_row for a row of the batch; a call with no row to write makes
\* no store call after ensure_headers
StoreFailed(la) ==
    /\ la.table # "none"
    /\ \/ la.st.hdr = "raise"
       \/ la.rows # <<>> /\ la.st.batch = "raise"
       \/ la.st.batch = "attr" /\ la.st.failAt \in 1..Len(la.rows)

\* C17: a store failure during a keyword's write step ends the run at that
\* keyword with a traceback and exit code 1: the keywords after it are never
\* fetched and nothing more is written by the run; when the failure is in
\* the listings write the keyword's related searches are not written; the
\* rows written before the failure stay in the tables.
C17_StoreFailureEndsRun ==
    /\ [](StoreFailed(lastAppend)
            => (/\ pc = "crashed"
                /\ exitCode = 1
                /\ attempted = SubSeq(keywords, 1, idx)
                /\ log # <<>>
                /\ log[Len(log)] = [kind |-> "traceback", keyword |-> keywords[idx]]))
    /\ [][(pc' = "crashed" /\ pc # "crashed")
            => (/\ StoreFailed(lastAppend')
                /\ IsPrefix(data, data')
                /\ IsPrefix(ideas, ideas')
                /\ pc = "write_data" => ideas' = ideas
                /\ pc = "write_ideas" => data' = data)]_vars
    /\ [][pc = "crashed"
            => (runs' = runs + 1 /\ data' = data /\ ideas' = ideas)]_vars

\* the listings write of the first of two keywords failed in the row-by-row
\* loop after its first row: that row and the header are in Data, nothing is
\* in Keyword_Ideas, the second keyword was never fetched
C17_Witness ==
    /\ pc = "crashed"
    /\ runs = 1
    /\ keywords = <<kwX, kwY>>
    /\ attempted = <<kwX>>
    /\ lastAppend.table = "Data"
    /\ lastAppend.st.batch = "attr"
    /\ lastAppend.st.failAt = 2
    /\ Len(data) = 2
    /\ ideas = <<>>

----------------------------------------------------------------------------
(* Harness of the two writers: one call of append_results_to_data_sheet or *)
(* of append_related_searches_to_sheet on an empty worksheet, for every    *)
(* list of at most MaxItems items.                                         *)

MaxItems == 2

\* the sequences of at most n elements of set
RECURSIVE Lists(_, _)
Lists(set, n) ==
    IF n = 0 THEN {<<>>}
    ELSE LET shorter == Lists(set, n - 1)
         IN  shorter \cup {Append(l, e) : l \in shorter, e \in set}

\* listing items: position and rank in every shape, no text key
ListingItems ==
    {MkItem(f) : f \in {g \in [ItemKeys -> Shapes] :
                            \A k \in TextKeys : g[k] = "absent"}}

RelatedKeys == {"query", "text"}

RelatedValue(k) == IF k = "query" THEN S(<<"q">>) ELSE S(<<"r">>)

MkRelated(f) ==
    [k \in {x \in RelatedKeys : f[x] # "absent"} |->
        CASE f[k] = "none" -> None
          [] f[k] = "empty" -> S(<<>>)
          [] f[k] = "value" -> RelatedValue(k)]

\* related-search items: query and text in every shape
RelatedItems == {MkRelated(f) : f \in [RelatedKeys -> Shapes]}

InitWriters ==
    /\ PipelineAtRest
    /\ callers = <<>>
    /\ data = <<>>
    /\ arg \in [writer : {"listings"}, items : Lists(ListingItems, MaxItems)]
               \cup [writer : {"related"}, items : Lists(RelatedItems, MaxItems)]
    /\ ret = Pending

ListingsCall(st) ==
    /\ ret = Pending
    /\ arg.writer = "listings"
    /\ LET r == append_results_to_data_sheet(data, kwX, HarnessCompetitors,
                                             arg.items, strftime(1), st)
       IN  /\ data' = r.ws
           /\ ret' = [st |-> st, raised |-> r.raised]
    /\ UNCHANGED <<cfg, ideas, pc, exitCode, keywords, competitors, today_str,
                   idx, result, attempted, log, runs, clock, lastAppend,
                   written, arg, callers>>

RelatedCall(st) ==
    /\ ret = Pending
    /\ arg.writer = "related"
    /\ LET r == append_related_searches_to_sheet(ideas, kwX, arg.items,
                                                 strftime(1), st)
       IN  /\ ideas' = r.ws
           /\ ret' = [st |-> st, raised |-> r.raised]
    /\ UNCHANGED <<cfg, data, pc, exitCode, keywords, competitors, today_str,
                   idx, result, attempted, log, runs, clock, lastAppend,
                   written, arg, callers>>

NextWriters ==
    \/ \E st \in StoreOutcomes : ListingsCall(st)
    \/ \E st \in StoreOutcomes : RelatedCall(st)

SpecWriters == InitWriters /\ [][NextWriters]_vars

----------------------------------------------------------------------------
(* C15: the rows of the listings *)

\* the provider supplied a position under key k: a positive integer
Supplied(item, k) == k \in DOMAIN item /\ IsInt(item[k]) /\ item[k].int > 0

ExpectedPosition(item, i) ==
    IF Supplied(item, "position") THEN item.position
    ELSE IF Supplied(item, "rank") THEN item.rank
    ELSE N(i)

Returned(writer) == ret # Pending /\ arg.writer = writer /\ ~ret.raised

\* C15: a listings write that the store accepts leaves, under the header,
\* one row per listing item in the order of the response; the Position cell
\* of the i-th row is the item's position when the provider supplied one,
\* else its rank when the provider supplied one, else i, and it is always a
\* positive integer.
C15_RowsInOrderWithPosition ==
    Returned("listings") /\ arg.items # <<>> =>
        /\ Len(data) = 1 + Len(arg.items)
        /\ data[1] = DataHeaders
        /\ \A i \in 1..Len(arg.items) :
              /\ data[i + 1][3] = ExpectedPosition(arg.items[i], i)
              /\ IsInt(data[i + 1][3])
              /\ data[i + 1][3].int >= 1
              /\ data[i + 1][2] = S(kwX)

\* two listings were written: the first has a position of 0 and a rank, the
\* second has neither; the rows carry the rank and the index 2
C15_Witness ==
    /\ Returned("listings")
    /\ arg.items = <<[position |-> N(0), rank |-> N(2)], [position |-> None]>>
    /\ Len(data) = 3
    /\ data[2][3] = N(2)
    /\ data[3][3] = N(2)

----------------------------------------------------------------------------
(* C16: the rows of the related searches *)

\* C16: a related-searches write drops the items that have neither a
\* non-empty query nor a non-empty text, without raising; each other item
\* gives exactly one row, with its query when that is non-empty and its text
\* otherwise, in the order of the response; when every item is dropped no
\* row is appended (the table holds its header and nothing else).
C16_RelatedIsOrderedFilter ==
    LET expected == ExpectedIdeaRows(kwX, arg.items, strftime(1))
    IN  /\ Returned("related") => ideas = <<IdeasHeaders>> \o expected
        /\ (ret # Pending /\ arg.writer = "related" /\ ret.st.hdr = "ok"
            /\ expected = <<>>)
              => (~ret.raised /\ ideas = <<IdeasHeaders>>)

\* of two items the first has an empty query and nothing else and is
\* dropped, the second has an empty query and a text and gives the one row
C16_Witness ==
    /\ Returned("related")
    /\ arg.items = <<[query |-> S(<<>>)], [query |-> S(<<>>), text |-> S(<<"r">>)]>>
    /\ ideas = <<IdeasHeaders, <<S(kwX), S(<<"r">>), strftime(1)>>>>

\* every item of the response is dropped: no row under the header, no error
C16_WitnessAllDropped ==
    /\ Returned("related")
    /\ Len(arg.items) = 2
    /\ ideas = <<IdeasHeaders>>

----------------------------------------------------------------------------
(* Two runs that overlap: each is inside one call of                       *)
(* append_results_to_data_sheet on the same Data worksheet, and the store  *)
(* calls of the two (row_values and insert_row of ensure_headers,          *)
(* append_rows, the append_row calls of the row-by-row loop) interleave in *)
(* any order.  Each store call is one step.  A caller is at "read" before  *)
(* row_values, at "insert" before insert_row, at "append" before           *)
(* append_rows, at "fallback" inside the row-by-row loop (next is the row  *)
(* to append), and ends "returned" or, when a store call raises, "raised". *)

Callers == {1, 2}

CallerKeyword(p) == IF p = 1 THEN kwX ELSE kwY

CallerRows(p) ==
    BuildDataRows(CallerKeyword(p), <<>>, <<ItemFull, ItemFallback>>, strftime(1))

InitOverlap ==
    /\ PipelineAtRest
    /\ data = <<>>
    /\ arg = <<>>
    /\ ret = <<>>
    /\ callers = [p \in Callers |->
                    [pc |-> "read", rows |-> CallerRows(p), next |-> 1,
                     batch |-> "none"]]

InStoreCall(p) == callers[p].pc \in {"read", "insert", "append", "fallback"}

\* if not ws.row_values(1):
ReadRow1(p) ==
    /\ callers[p].pc = "read"
    /\ callers' = [callers EXCEPT ![p].pc =
                      IF row_values(data, 1) = <<>> THEN "insert" ELSE "append"]
    /\ UNCHANGED <<pipelineVars, arg, ret>>

\* ws.insert_row(headers, 1)
InsertHeaders(p) ==
    /\ callers[p].pc = "insert"
    /\ data' = insert_row(data, DataHeaders, 1)
    /\ callers' = [callers EXCEPT ![p].pc = "append"]
    /\ UNCHANGED <<cfg, ideas, pc, exitCode, keywords, competitors, today_str,
                   idx, result, attempted, log, runs, clock, lastAppend,
                   written, arg, ret>>

\* try: data_ws.append_rows(rows); except AttributeError: the loop starts
TryAppendRows(p, batch) ==
    /\ callers[p].pc = "append"
    /\ IF batch = "ok"
       THEN /\ data' = append_rows(data, callers[p].rows)
            /\ callers' = [callers EXCEPT ![p].pc = "returned", ![p].batch = batch,
                                          ![p].next = Len(callers[p].rows) + 1]
       ELSE /\ data' = data
            /\ callers' = [callers EXCEPT ![p].pc = "fallback", ![p].batch = batch]
    /\ UNCHANGED <<cfg, ideas, pc, exitCode, keywords, competitors, today_str,
                   idx, result, attempted, log, runs, clock, lastAppend,
                   written, arg, ret>>

\* for row in rows: data_ws.append_row(row)
FallbackAppendRow(p) ==
    /\ callers[p].pc = "fallback"
    /\ data' = append_row(data, callers[p].rows[callers[p].next])
    /\ callers' = [callers EXCEPT
                      ![p].next = @ + 1,
                      ![p].pc = IF callers[p].next = Len(callers[p].rows)
                                THEN "returned" ELSE "fallback"]
    /\ UNCHANGED <<cfg, ideas, pc, exitCode, keywords, competitors, today_str,
                   idx, result, attempted, log, runs, clock, lastAppend,
                   written, arg, ret>>

\* the store call the caller is about to make raises
StoreCallRaises(p) ==
    /\ InStoreCall(p)
    /\ callers' = [callers EXCEPT ![p].pc = "raised"]
    /\ UNCHANGED <<pipelineVars, arg, ret>>

NextOverlap ==
    \/ \E p \in Callers : ReadRow1(p)
    \/ \E p \in Callers : InsertHeaders(p)
    \/ \E p \in Callers, batch \in {"ok", "attr"} : TryAppendRows(p, batch)
    \/ \E p \in Callers : FallbackAppendRow(p)
    \/ \E p \in Callers : StoreCallRaises(p)

SpecOverlap == InitOverlap /\ [][NextOverlap]_vars

----------------------------------------------------------------------------
(* C12: batches of concurrent callers *)

\* the rows of its batch the caller has appended so far
Appended(p) == SubSeq(callers[p].rows, 1, callers[p].next - 1)

\* where a row is in the table
RowsAt(row) == {k \in 1..Len(data) : data[k] = row}

\* rows is in the table as one block, in input order
Contiguous(rows) ==
    \E k \in 0..(Len(data) - Len(rows)) : SubSeq(data, k + 1, k + Len(rows)) = rows

\* each row is in the table once, and a later row of rows is further down
InInputOrder(rows) ==
    /\ \A i \in 1..Len(rows) : Cardinality(RowsAt(rows[i])) = 1
    /\ \A i, j \in 1..Len(rows) :
          i < j => \A a \in RowsAt(rows[i]), b \in RowsAt(rows[j]) : a < b

BothReturned == \A p \in Callers : callers[p].pc = "returned"

\* C12 as stated: when the two writer calls have returned, the batch of each
\* is one contiguous block of the table, in input order.
C12_EachBatchContiguous ==
    BothReturned => \A p \in Callers : Contiguous(callers[p].rows)

\* C12, amended: the rows a caller has appended are in the table in input
\* order, each once; a batch that went in by one append_rows call is one
\* contiguous block whatever the other caller does; the rows of a batch that
\* goes in row by row are one block as long as the other caller has made no
\* store call that writes.
C12_InOrderAndBatchContiguous ==
    \A p \in Callers :
        /\ InInputOrder(Appended(p))
        /\ callers[p].batch = "ok" => Contiguous(Appended(p))
        /\ (\A q \in Callers \ {p} : callers[q].pc = "read")
              => Contiguous(Appended(p))

\* both calls have returned; caller 1 went row by row and a row of caller 2
\* lies between its two rows
C12_Witness ==
    /\ BothReturned
    /\ callers[1].batch = "attr"
    /\ InInputOrder(callers[1].rows)
    /\ ~Contiguous(callers[1].rows)
    /\ Contiguous(callers[2].rows)
    /\ callers[2].batch = "ok"

----------------------------------------------------------------------------
(* C18: the header under overlapping runs *)

NoCallInProgress == \A p \in Callers : ~InStoreCall(p)

\* C18 as stated: when the writer calls of two overlapping runs on an
\* initially empty table are over, the table holds exactly one header row,
\* at row 1, and every other row is a row of one of the two batches.
C18_OneHeaderWhenRunsOverlap ==
    (NoCallInProgress /\ data # <<>>) =>
        /\ HeaderRows(data, DataHeaders) = {1}
        /\ \A k \in 2..Len(data) :
              \E p \in Callers :
                  \E i \in 1..Len(callers[p].rows) : data[k] = callers[p].rows[i]

============================================================================
